---- MODULE Spec2Model ----
(***************************************************************************)
(* Model of chop_audio.py: one invocation of main() is a linear pipeline   *)
(*   makedirs(root) ; makedirs(root/prefix) ; detect ; load ; group ;      *)
(*   export loop ; last section                                            *)
(* run either by split_by_downbeats (section mode) or by split_by_bars     *)
(* (--bars).  The file system of the output root persists between          *)
(* invocations.                                                            *)
(*                                                                         *)
(* Times are counted in detector frames (fps = 100 frames per second), the *)
(* resolution at which the madmom tracker reports beats.  A sample buffer  *)
(* is a sequence of samples; indices in the model are the 0-based Python   *)
(* indices, converted at the point of slicing.                             *)
(***************************************************************************)
EXTENDS Integers, Sequences, FiniteSets, TLC

\* ---- bounds of the model ------------------------------------------------
MaxTick == 3        \* detector frames 0..MaxTick may carry a beat
MaxLen  == 2        \* longest sample buffer
MaxK    == 2        \* largest --bars-per-section
MaxRuns == 2        \* invocations into the same output root (SpecRuns)

\* ---- program constants and input domains --------------------------------
Fps == 100                       \* DBNDownBeatTrackingProcessor(fps=100)
Width == 3                       \* the 03d of the file name
SampleRates == {50, 100}         \* native rates: below and at the frame rate
BeatPositions == {1, 2}          \* position within the bar; 1 = downbeat
Prefixes == {"song"}

VARIABLES
    pc,               \* position of the invocation in the pipeline
    err,              \* "none", or the kind of the uncaught exception
    bars,             \* args.bars
    bars_per_section, \* args.bars_per_section
    prefix,           \* args.prefix
    dirs,             \* directories that exist under the output root
    fs,               \* files on disk: path -> samples
    fs0,              \* fs when the current invocation started (history)
    downbeat_times,   \* beats[beats[:, 1] == 1, 0]
    y,                \* the sample buffer
    sr,               \* its sample rate
    section_samples,  \* split_by_downbeats: boundaries in samples
    bar_samples,      \* split_by_bars: boundaries in samples
    i,                \* loop variable of the export loop
    written,          \* successful sf.write calls of this invocation (history)
    calls,            \* external calls attempted by this invocation (history)
    run               \* number of the current invocation

vars == <<pc, err, bars, bars_per_section, prefix, dirs, fs, fs0,
          downbeat_times, y, sr, section_samples, bar_samples, i,
          written, calls, run>>

\* ---- helpers --------------------------------------------------------------
Min(a, b) == IF a < b THEN a ELSE b

RECURSIVE SortedSeq(_)
\* the elements of a finite set of integers in increasing order
SortedSeq(S) ==
    IF S = {} THEN <<>>
    ELSE LET m == CHOOSE x \in S : \A z \in S : x <= z
         IN  <<m>> \o SortedSeq(S \ {m})

\* what the detector can return: beats at strictly increasing frames, each
\* with a position in the bar
BeatSeqs ==
    UNION { { [n \in 1..Cardinality(S) |-> <<SortedSeq(S)[n], p[SortedSeq(S)[n]]>>]
              : p \in [S -> BeatPositions] }
            : S \in SUBSET (0..MaxTick) }

\* what the loader can return: a buffer of n pairwise distinct samples, so
\* that a sample's value identifies its position
Buffers == { [j \in 1..n |-> 10 + j] : n \in 0..MaxLen }

RECURSIVE DownbeatTimes(_)
\* beats[beats[:, 1] == 1, 0]: the times of the beats at position 1
DownbeatTimes(beats) ==
    IF beats = <<>> THEN <<>>
    ELSE (IF Head(beats)[2] = 1 THEN <<Head(beats)[1]>> ELSE <<>>)
         \o DownbeatTimes(Tail(beats))

RECURSIVE StrideWholeGroups(_, _)
\* a stride that keeps only the groups that are complete
StrideWholeGroups(s, k) ==
    IF Len(s) < k THEN <<>>
    ELSE <<Head(s)>> \o StrideWholeGroups(SubSeq(s, k + 1, Len(s)), k)

RECURSIVE Stride(_, _)
\* s[::k] for k > 0: the elements at the 0-based indices 0, k, 2k, ...
Stride(s, k) ==
    IF s = <<>> THEN <<>>
    ELSE <<Head(s)>> \o Stride(SubSeq(s, k + 1, Len(s)), k)

\* librosa.time_to_samples: (times * sr).astype(int), i.e. truncation, with
\* times counted in frames of 1/Fps s (exact arithmetic; the rounding error of
\* the floating-point product is not modelled)
TimeToSamples(times, rate) ==
    [n \in 1..Len(times) |-> (times[n] * rate) \div Fps]

\* boundaries taken at the last downbeat of each group instead of the first
SectionSamplesAtGroupEnd(times, rate, k) ==
    TimeToSamples(Stride(SubSeq(times, k, Len(times)), k), rate)

\* section_samples of split_by_downbeats, for bars_per_section > 0
SectionSamples(times, rate, k) == TimeToSamples(Stride(times, k), rate)

\* bar mode that groups by --bars-per-section
BarSamplesGrouped(times, rate) ==
    SectionSamples(times, rate, IF bars_per_section > 0 THEN bars_per_section ELSE 1)

\* bar_samples of split_by_bars
BarSamples(times, rate) == TimeToSamples(times, rate)

\* a slice that includes its stop index
SliceInclusive(buf, start, stop) ==
    SubSeq(buf, Min(start, Len(buf)) + 1, Min(stop + 1, Len(buf)))

\* buf[start:stop] for 0-based start, stop >= 0: both ends are clipped to the
\* buffer, and the slice is empty when start >= stop
Slice(buf, start, stop) ==
    SubSeq(buf, Min(start, Len(buf)) + 1, Min(stop, Len(buf)))

\* buf[start:]
SliceFrom(buf, start) == SubSeq(buf, Min(start, Len(buf)) + 1, Len(buf))

RECURSIVE Digits(_)
\* the decimal digits of n >= 0, most significant first
Digits(n) == IF n < 10 THEN <<n>> ELSE Digits(n \div 10) \o <<n % 10>>

\* f"{n:03d}": the digits of n, left-padded with zeros to Width characters
Fmt03d(n) ==
    LET d == Digits(n)
    IN  [j \in 1..(Width - Min(Width, Len(d))) |-> 0] \o d

\* os.path.join(output_dir, f"{prefix}_{n:03d}.wav"), output_dir = root/prefix
OutputFile(pre, n) == [dir |-> pre, stem |-> pre, num |-> Fmt03d(n)]

\* one iteration of the export loop of split_by_downbeats
SectionFile(samples, buf, pre, n) ==
    [path  |-> OutputFile(pre, n),
     start |-> samples[n + 1],
     stop  |-> samples[n + 2],
     data  |-> Slice(buf, samples[n + 1], samples[n + 2])]

\* a last section numbered len(section_samples)
SectionLastNumberedLen(samples, buf, pre) ==
    [path  |-> OutputFile(pre, Len(samples)),
     start |-> samples[Len(samples)],
     stop  |-> Len(buf),
     data  |-> SliceFrom(buf, samples[Len(samples)])]

\* a last section only after the loop has run
SectionHasLastAfterLoop(samples) == Len(samples) > 1

\* if len(section_samples) > 0
SectionHasLast(samples) == Len(samples) > 0

\* the last section of split_by_downbeats
SectionLast(samples, buf, pre) ==
    [path  |-> OutputFile(pre, Len(samples) - 1),
     start |-> samples[Len(samples)],
     stop  |-> Len(buf),
     data  |-> SliceFrom(buf, samples[Len(samples)])]

\* one iteration of the export loop of split_by_bars
BarFile(samples, buf, pre, n) ==
    [path  |-> OutputFile(pre, n),
     start |-> samples[n + 1],
     stop  |-> samples[n + 2],
     data  |-> Slice(buf, samples[n + 1], samples[n + 2])]

\* if len(bar_samples) > 0
BarHasLast(samples) == Len(samples) > 0

\* the last bar of split_by_bars
BarLast(samples, buf, pre) ==
    [path  |-> OutputFile(pre, Len(samples) - 1),
     start |-> samples[Len(samples)],
     stop  |-> Len(buf),
     data  |-> SliceFrom(buf, samples[Len(samples)])]

\* everything split_by_downbeats writes for given boundaries: the loop over
\* range(len - 1), then the last section when there is a boundary
SectionOutput(samples, buf, pre) ==
    [n \in 1..Len(samples) |->
        IF n < Len(samples) THEN SectionFile(samples, buf, pre, n - 1)
        ELSE SectionLast(samples, buf, pre)]

\* a write that skips a segment without samples
SfWriteSkipEmpty(f, path, data) ==
    IF data = <<>> THEN f
    ELSE [p \in DOMAIN f \cup {path} |-> IF p = path THEN data ELSE f[p]]

\* sf.write(path, data, sr) on the file system f: creates or replaces the file
SfWrite(f, path, data) ==
    [p \in DOMAIN f \cup {path} |-> IF p = path THEN data ELSE f[p]]

\* what an interrupted sf.write can leave on disk: the file untouched, or
\* created/truncated and holding a proper prefix of the data
Interrupted(f, path, data) ==
    {f} \cup { SfWrite(f, path, SubSeq(data, 1, n)) : n \in 0..(Len(data) - 1) }

Call(op, arg) == [op |-> op, arg |-> arg]

NoFiles == [p \in {} |-> <<>>]

\* ---- initial state: a parsed command line, an empty output root ----------
\* --bars-per-section ranges over the non-negative integers up to MaxK (argparse
\* accepts any int; a negative step reverses the downbeats and is left out).
\* The detector's times and the loader's buffer length are not tied to each
\* other: a boundary may lie at or beyond the end of the buffer.
Init ==
    /\ pc = "main"
    /\ err = "none"
    /\ bars \in BOOLEAN
    /\ bars_per_section \in 0..MaxK
    /\ prefix \in Prefixes
    /\ dirs = {}
    /\ fs = NoFiles
    /\ fs0 = NoFiles
    /\ downbeat_times = <<>>
    /\ y = <<>>
    /\ sr = 0
    /\ section_samples = <<>>
    /\ bar_samples = <<>>
    /\ i = 0
    /\ written = <<>>
    /\ calls = <<>>
    /\ run = 1

\* ---- main ------------------------------------------------------------------
\* os.makedirs(args.output_dir, exist_ok=True), then the call of the mode
main ==
    /\ pc = "main"
    /\ dirs' = dirs \cup {<<"root">>}
    /\ calls' = Append(calls, Call("makedirs", 0))
    /\ pc' = "makedirs"
    /\ UNCHANGED <<err, bars, bars_per_section, prefix, fs, fs0, downbeat_times,
                   y, sr, section_samples, bar_samples, i, written, run>>

\* ---- the calls shared in shape by both functions ---------------------------
\* a directory step that empties the output directory first
MakedirsFresh ==
    /\ pc = "makedirs"
    /\ dirs' = dirs \cup {<<"root", prefix>>}
    /\ fs' = NoFiles
    /\ calls' = Append(calls, Call("makedirs", 1))
    /\ pc' = "detect"
    /\ UNCHANGED <<err, bars, bars_per_section, prefix, fs0, downbeat_times,
                   y, sr, section_samples, bar_samples, i, written, run>>

\* os.makedirs(output_dir, exist_ok=True): no error when the directory exists
Makedirs ==
    /\ pc = "makedirs"
    /\ dirs' = dirs \cup {<<"root", prefix>>}
    /\ calls' = Append(calls, Call("makedirs", 1))
    /\ pc' = "detect"
    /\ UNCHANGED <<err, bars, bars_per_section, prefix, fs, fs0, downbeat_times,
                   y, sr, section_samples, bar_samples, i, written, run>>

\* proc(RNNDownBeatProcessor()(audio_file)) and the downbeat filter
Detect ==
    /\ pc = "detect"
    /\ \E beats \in BeatSeqs : downbeat_times' = DownbeatTimes(beats)
    /\ calls' = Append(calls, Call("detect", 0))
    /\ pc' = "load"
    /\ UNCHANGED <<err, bars, bars_per_section, prefix, dirs, fs, fs0,
                   y, sr, section_samples, bar_samples, i, written, run>>

\* a detector failure that is retried
DetectRetried ==
    /\ pc = "detect"
    /\ Len(calls) < 4
    /\ calls' = Append(calls, Call("detect", 0))
    /\ UNCHANGED <<pc, err, bars, bars_per_section, prefix, dirs, fs, fs0,
                   downbeat_times, y, sr, section_samples, bar_samples, i,
                   written, run>>

\* the detector raises: the exception is not caught
DetectFails ==
    /\ pc = "detect"
    /\ calls' = Append(calls, Call("detect", 0))
    /\ pc' = "error"
    /\ err' = "detector"
    /\ UNCHANGED <<bars, bars_per_section, prefix, dirs, fs, fs0, downbeat_times,
                   y, sr, section_samples, bar_samples, i, written, run>>

\* y, sr = librosa.load(audio_file, sr=None)
Load ==
    /\ pc = "load"
    /\ \E buf \in Buffers, rate \in SampleRates : y' = buf /\ sr' = rate
    /\ calls' = Append(calls, Call("load", 0))
    /\ pc' = "group"
    /\ UNCHANGED <<err, bars, bars_per_section, prefix, dirs, fs, fs0,
                   downbeat_times, section_samples, bar_samples, i, written, run>>

\* the loader raises: the exception is not caught
LoadFails ==
    /\ pc = "load"
    /\ calls' = Append(calls, Call("load", 0))
    /\ pc' = "error"
    /\ err' = "loader"
    /\ UNCHANGED <<bars, bars_per_section, prefix, dirs, fs, fs0, downbeat_times,
                   y, sr, section_samples, bar_samples, i, written, run>>

\* ---- split_by_downbeats ----------------------------------------------------
\* downbeat_times[::bars_per_section] raises ValueError for a step of zero
split_by_downbeats_group ==
    /\ pc = "group"
    /\ ~bars
    /\ IF bars_per_section = 0
       THEN /\ pc' = "error"
            /\ err' = "ValueError"
            /\ UNCHANGED section_samples
       ELSE /\ section_samples' = SectionSamples(downbeat_times, sr, bars_per_section)
            /\ pc' = "export"
            /\ UNCHANGED err
    /\ i' = 0
    /\ UNCHANGED <<bars, bars_per_section, prefix, dirs, fs, fs0, downbeat_times,
                   y, sr, bar_samples, written, calls, run>>

\* for i in range(len(section_samples) - 1): one iteration
split_by_downbeats_export ==
    /\ pc = "export"
    /\ ~bars
    /\ i < Len(section_samples) - 1
    /\ LET f == SectionFile(section_samples, y, prefix, i)
       IN  /\ fs' = SfWrite(fs, f.path, f.data)
           /\ written' = Append(written, f)
           /\ calls' = Append(calls, Call("write", i))
    /\ i' = i + 1
    /\ UNCHANGED <<pc, err, bars, bars_per_section, prefix, dirs, fs0,
                   downbeat_times, y, sr, section_samples, bar_samples, run>>

\* the loop is exhausted: if len(section_samples) > 0, the last section
split_by_downbeats_last ==
    /\ pc = "export"
    /\ ~bars
    /\ ~(i < Len(section_samples) - 1)
    /\ IF SectionHasLast(section_samples)
       THEN LET f == SectionLast(section_samples, y, prefix)
            IN  /\ fs' = SfWrite(fs, f.path, f.data)
                /\ written' = Append(written, f)
                /\ calls' = Append(calls, Call("write", Len(section_samples) - 1))
       ELSE UNCHANGED <<fs, written, calls>>
    /\ pc' = "done"
    /\ UNCHANGED <<err, bars, bars_per_section, prefix, dirs, fs0, downbeat_times,
                   y, sr, section_samples, bar_samples, i, run>>

\* ---- split_by_bars ---------------------------------------------------------
\* bar_samples = librosa.time_to_samples(downbeat_times, sr=sr)
split_by_bars_convert ==
    /\ pc = "group"
    /\ bars
    /\ bar_samples' = BarSamples(downbeat_times, sr)
    /\ pc' = "export"
    /\ i' = 0
    /\ UNCHANGED <<err, bars, bars_per_section, prefix, dirs, fs, fs0,
                   downbeat_times, y, sr, section_samples, written, calls, run>>

\* for i in range(len(bar_samples) - 1): one iteration
split_by_bars_export ==
    /\ pc = "export"
    /\ bars
    /\ i < Len(bar_samples) - 1
    /\ LET f == BarFile(bar_samples, y, prefix, i)
       IN  /\ fs' = SfWrite(fs, f.path, f.data)
           /\ written' = Append(written, f)
           /\ calls' = Append(calls, Call("write", i))
    /\ i' = i + 1
    /\ UNCHANGED <<pc, err, bars, bars_per_section, prefix, dirs, fs0,
                   downbeat_times, y, sr, section_samples, bar_samples, run>>

\* the loop is exhausted: if len(bar_samples) > 0, the last bar
split_by_bars_last ==
    /\ pc = "export"
    /\ bars
    /\ ~(i < Len(bar_samples) - 1)
    /\ IF BarHasLast(bar_samples)
       THEN LET f == BarLast(bar_samples, y, prefix)
            IN  /\ fs' = SfWrite(fs, f.path, f.data)
                /\ written' = Append(written, f)
                /\ calls' = Append(calls, Call("write", Len(bar_samples) - 1))
       ELSE UNCHANGED <<fs, written, calls>>
    /\ pc' = "done"
    /\ UNCHANGED <<err, bars, bars_per_section, prefix, dirs, fs0, downbeat_times,
                   y, sr, section_samples, bar_samples, i, run>>

\* ---- an sf.write that does not complete ------------------------------------
\* the boundaries of the running function
Samples == IF bars THEN bar_samples ELSE section_samples

\* the file the next sf.write of the running function is for
NextFile ==
    IF i < Len(Samples) - 1
    THEN (IF bars THEN BarFile(bar_samples, y, prefix, i)
                  ELSE SectionFile(section_samples, y, prefix, i))
    ELSE (IF bars THEN BarLast(bar_samples, y, prefix)
                  ELSE SectionLast(section_samples, y, prefix))

\* a failure handler that removes the files of the invocation
RollBack(f, log) ==
    [p \in DOMAIN f \ {log[n].path : n \in 1..Len(log)} |-> f[p]]

\* what the program does about the files it wrote when a write fails: nothing
OnWriteFailure(f, log) == f

\* sf.write raises, or the process is killed inside it: nothing catches the
\* exception and nothing cleans up
SfWriteFails ==
    /\ pc = "export"
    /\ Len(Samples) > 0
    /\ \E e \in {"write", "killed"}, g \in Interrupted(fs, NextFile.path, NextFile.data) :
          /\ err' = e
          /\ fs' = OnWriteFailure(g, written)
    /\ calls' = Append(calls, Call("write", Len(written)))
    /\ pc' = "error"
    /\ UNCHANGED <<bars, bars_per_section, prefix, dirs, fs0, downbeat_times,
                   y, sr, section_samples, bar_samples, i, written, run>>

\* ---- the next invocation into the same output root and prefix --------------
NewRun ==
    /\ pc = "done"
    /\ run < MaxRuns
    /\ run' = run + 1
    /\ pc' = "main"
    /\ bars' \in BOOLEAN
    /\ bars_per_section' \in 0..MaxK
    /\ fs0' = fs
    /\ downbeat_times' = <<>>
    /\ y' = <<>>
    /\ sr' = 0
    /\ section_samples' = <<>>
    /\ bar_samples' = <<>>
    /\ i' = 0
    /\ written' = <<>>
    /\ calls' = <<>>
    /\ UNCHANGED <<err, prefix, dirs, fs>>

\* the steps of an invocation whose external calls succeed
Proceeds ==
    \/ main
    \/ Makedirs
    \/ Detect
    \/ Load
    \/ split_by_downbeats_group
    \/ split_by_downbeats_export
    \/ split_by_downbeats_last
    \/ split_by_bars_convert
    \/ split_by_bars_export
    \/ split_by_bars_last

\* an external call raises, or the process is killed in it
Fails ==
    \/ DetectFails
    \/ LoadFails
    \/ SfWriteFails

Next == Proceeds \/ Fails

\* one invocation
Spec == Init /\ [][Next]_vars

NextRuns == Proceeds \/ NewRun

\* up to MaxRuns invocations whose external calls succeed, each started after
\* the previous one completed, into the same output root and prefix
SpecRuns == Init /\ [][NextRuns]_vars

\* ---- vocabulary of the properties -------------------------------------------
Terminal == {"done", "error"}

\* exceptions raised by the external collaborators, or the process being killed
External == {"detector", "loader", "write", "killed"}

NumDownbeats == Len(downbeat_times)

\* the grouping factor of the running mode
GroupingFactor == IF bars THEN 1 ELSE bars_per_section

CeilDiv(a, b) == (a + b - 1) \div b

RECURSIVE ParseInt(_)
\* the number a sequence of decimal digits denotes
ParseInt(d) ==
    IF d = <<>> THEN 0 ELSE 10 * ParseInt(SubSeq(d, 1, Len(d) - 1)) + d[Len(d)]

RECURSIVE ConcatData(_)
\* the samples of a sequence of written files, in order
ConcatData(log) ==
    IF log = <<>> THEN <<>> ELSE Head(log).data \o ConcatData(Tail(log))

\* the samples of y at the 0-based indices lo <= x < hi that exist in y
Range(lo, hi) ==
    LET a == Min(lo, Len(y))
        b == Min(hi, Len(y))
    IN  [n \in 1..(IF b > a THEN b - a ELSE 0) |-> y[a + n]]

\* the written files that hold the sample at 0-based index x (the samples of a
\* buffer are pairwise distinct)
Holders(x) ==
    {n \in 1..Len(written) : \E m \in 1..Len(written[n].data) : written[n].data[m] = y[x + 1]}

\* the boundaries as the specification defines them: the sample index of
\* downbeats[j * k] for every j with j * k < L
NumBoundaries == Cardinality({j \in 0..(NumDownbeats - 1) : j * GroupingFactor < NumDownbeats})
Boundary(j) == TimeToSamples(<<downbeat_times[j * GroupingFactor + 1]>>, sr)[1]

WrittenPaths == {written[n].path : n \in 1..Len(written)}

\* the external calls the claims speak of, in the order they were attempted
PipelineCalls ==
    LET IsPipeline(c) == c.op \in {"detect", "load", "write"}
    IN  SelectSeq(calls, IsPipeline)

\* ---- C1 ---------------------------------------------------------------------
\* C1 as stated: for every k >= 0 a section-mode run whose external calls
\* succeed ends without exception and emits ceil(L / k) segments when L >= 1
\* and none when L = 0.
C1_AsStated ==
    (~bars /\ pc \in Terminal /\ err \notin External) =>
        /\ err = "none"
        /\ Len(written) = (IF NumDownbeats = 0 THEN 0
                           ELSE CeilDiv(NumDownbeats, bars_per_section))

\* C1, amended: for every k >= 1 a section-mode run whose external calls
\* succeed ends without exception and emits exactly ceil(L / k) segments (none
\* when L = 0); for k = 0 it raises ValueError before anything is written.
C1_SegmentCount ==
    ~bars =>
        /\ (bars_per_section >= 1 /\ pc = "done") =>
              /\ err = "none"
              /\ Len(written) = CeilDiv(NumDownbeats, bars_per_section)
              /\ (NumDownbeats = 0 => fs = fs0)
        /\ (bars_per_section >= 1 /\ pc = "error") => err \in External
        /\ (bars_per_section = 0 /\ pc \in Terminal /\ err \notin External) =>
              /\ err = "ValueError"
              /\ written = <<>>
              /\ fs = fs0

C1_Witness ==
    /\ ~bars /\ pc = "done"
    /\ bars_per_section = 2 /\ NumDownbeats = 3
    /\ Len(written) = 2

\* ---- C2 ---------------------------------------------------------------------
\* C2 as stated: with at least one boundary, the emitted segments concatenated
\* in emission order are the whole buffer.
C2_AsStated ==
    (pc = "done" /\ Len(Samples) >= 1) => ConcatData(written) = y

\* C2, amended: with at least one boundary, the emitted segments concatenated
\* in emission order are the buffer from the first boundary on; every sample
\* index at or after the first boundary belongs to exactly one segment, and
\* the samples before the first boundary belong to none.
C2_PartitionFromFirstBoundary ==
    (pc = "done" /\ Len(Samples) >= 1) =>
        /\ ConcatData(written) = Range(Samples[1], Len(y))
        /\ \A x \in 0..(Len(y) - 1) :
              Cardinality(Holders(x)) = (IF x >= Samples[1] THEN 1 ELSE 0)

C2_Witness ==
    /\ pc = "done"
    /\ Len(written) >= 2
    /\ Samples[1] >= 1
    /\ written[1].data # <<>>

\* ---- C3 ---------------------------------------------------------------------
\* C3 as stated: a section-mode run with L < k emits no segment, writes no
\* file and raises no error.
C3_AsStated ==
    (~bars /\ pc \in Terminal /\ err \notin External
           /\ NumDownbeats < bars_per_section) =>
        /\ err = "none"
        /\ written = <<>>
        /\ fs = fs0

\* C3, amended: a section-mode run with L < k raises no error of its own; it
\* emits no segment and writes no file when L = 0, and when 1 <= L < k it
\* emits exactly one segment, from the first downbeat to the end of the
\* buffer, written to file 000.
C3_FewerDownbeatsThanGroup ==
    (~bars /\ NumDownbeats < bars_per_section) =>
        /\ pc = "error" => err \in External
        /\ pc = "done" =>
              /\ err = "none"
              /\ IF NumDownbeats = 0
                 THEN written = <<>> /\ fs = fs0
                 ELSE /\ Len(written) = 1
                      /\ written[1].data = Range(Boundary(0), Len(y))
                      /\ ParseInt(written[1].path.num) = 0
                      /\ written[1].path \in DOMAIN fs

C3_Witness ==
    /\ ~bars /\ pc = "done"
    /\ NumDownbeats = 1 /\ bars_per_section = 2
    /\ Len(written) = 1
    /\ written[1].data # <<>>

\* ---- C4 ---------------------------------------------------------------------
\* C4: in both modes the j-th file written (j from 0) is prefix_{j as three
\* digits} in the prefix directory, so the numeric suffixes of the files of a
\* run are 0, 1, ..., n-1 in emission order, without gap or repeat, and each
\* file holds the segment written to it.
C4_Filenames ==
    /\ \A n \in 1..Len(written) :
          /\ written[n].path.dir = prefix
          /\ written[n].path.stem = prefix
          /\ Len(written[n].path.num) = Width
          /\ ParseInt(written[n].path.num) = n - 1
    /\ pc = "done" =>
          /\ {ParseInt(p.num) : p \in WrittenPaths} = 0..(Len(Samples) - 1)
          /\ \A n \in 1..Len(written) :
                /\ written[n].path \in DOMAIN fs
                /\ fs[written[n].path] = written[n].data

C4_Witness ==
    /\ pc = "done"
    /\ Len(written) >= 3
    /\ \E n \in 1..Len(written) : written[n].data # <<>>

\* ---- C5 ---------------------------------------------------------------------
\* C5: in both modes, with b[0..m-1] the sample indices of downbeats[0],
\* downbeats[k], downbeats[2k], ..., a completed run has emitted m segments;
\* segment j < m-1 is buffer[b[j] : b[j+1]) and the last is buffer[b[m-1] : end).
C5_SegmentsFollowBoundaries ==
    pc = "done" =>
        /\ Len(written) = NumBoundaries
        /\ \A j \in 0..(NumBoundaries - 2) :
              written[j + 1].data = Range(Boundary(j), Boundary(j + 1))
        /\ NumBoundaries >= 1 =>
              written[NumBoundaries].data = Range(Boundary(NumBoundaries - 1), Len(y))

C5_Witness ==
    /\ pc = "done" /\ ~bars
    /\ bars_per_section = 2 /\ NumDownbeats = 4
    /\ Len(written) = 2
    /\ written[1].data # <<>>
    /\ written[2].data # <<>>

\* ---- C6 ---------------------------------------------------------------------
\* C6: whatever --bars-per-section is, a bar-mode run writes the files, with
\* the ranges and samples, that split_by_downbeats writes for the same input
\* with bars_per_section = 1.
C6_BarModeIsSectionModeOfOne ==
    LET expected ==
            SectionOutput(SectionSamples(downbeat_times, sr, 1), y, prefix)
    IN  /\ bars =>
              /\ Len(written) <= Len(expected)
              /\ \A n \in 1..Len(written) : written[n] = expected[n]
              /\ pc = "done" => written = expected
        /\ (~bars /\ pc = "done") =>
              written = SectionOutput(section_samples, y, prefix)

C6_Witness ==
    /\ bars /\ pc = "done"
    /\ bars_per_section # 1
    /\ Len(written) >= 3
    /\ written[1].data # <<>>

\* ---- C7 ---------------------------------------------------------------------
\* C7: in every run the detector, the loader and the writes of segments
\* 0, 1, ... are attempted in that order, none of them twice; no write is
\* attempted before detection and loading; a run that completes has attempted
\* each of them exactly once.
C7_CallOrder ==
    /\ \A n \in 1..Len(PipelineCalls) :
          /\ n = 1 => PipelineCalls[n].op = "detect"
          /\ n = 2 => PipelineCalls[n].op = "load"
          /\ n >= 3 => /\ PipelineCalls[n].op = "write"
                       /\ PipelineCalls[n].arg = n - 3
    /\ Len(written) <= Len(PipelineCalls) - 2 \/ written = <<>>
    /\ pc = "done" => Len(PipelineCalls) = 2 + Len(Samples)

C7_Witness ==
    /\ pc = "done"
    /\ Len(written) >= 2
    /\ Len(PipelineCalls) = 2 + Len(written)

\* ---- C8 ---------------------------------------------------------------------
\* C8: when the write of segment j fails or the process is killed in it, the
\* run has ended (no further step), the files of segments 0..j-1 are on disk
\* as written, no file numbered above j was touched, and no file was removed.
C8_FailedWriteLeavesEarlierFiles ==
    (pc = "error" /\ err \in {"write", "killed"}) =>
        LET j == Len(written)
        IN  /\ calls[Len(calls)] = Call("write", j)
            /\ ~ENABLED Next
            /\ \A n \in 1..j :
                  /\ ParseInt(written[n].path.num) = n - 1
                  /\ written[n].path \in DOMAIN fs
                  /\ fs[written[n].path] = written[n].data
            /\ \A p \in DOMAIN fs0 : p \in DOMAIN fs
            /\ \A p \in DOMAIN fs :
                  ParseInt(p.num) > j => (p \in DOMAIN fs0 /\ fs[p] = fs0[p])

C8_Witness ==
    /\ pc = "error" /\ err = "write"
    /\ Len(written) = 1
    /\ Len(Samples) >= 3
    /\ written[1].data # <<>>

\* ---- C9 ---------------------------------------------------------------------
\* C9: no segment is skipped for being empty: a completed run has written one
\* file per boundary; when the last boundary is at or beyond the end of the
\* buffer the last file has no samples, and so has the file of a segment
\* between two equal boundaries.
C9_EmptySegmentsAreWritten ==
    pc = "done" =>
        /\ Len(written) = Len(Samples)
        /\ \A n \in 1..Len(written) : written[n].path \in DOMAIN fs
        /\ (Len(Samples) >= 1 /\ Samples[Len(Samples)] >= Len(y)) =>
              /\ written[Len(Samples)].data = <<>>
              /\ fs[written[Len(Samples)].path] = <<>>
        /\ \A n \in 1..(Len(Samples) - 1) :
              Samples[n] = Samples[n + 1] =>
                  /\ written[n].data = <<>>
                  /\ fs[written[n].path] = <<>>

C9_Witness ==
    /\ pc = "done"
    /\ Len(Samples) >= 3
    /\ Samples[Len(Samples)] >= Len(y)
    /\ Samples[1] = Samples[2]
    /\ Samples[1] < Len(y)
    /\ Cardinality(DOMAIN fs) = Len(Samples)

\* ---- C10 --------------------------------------------------------------------
\* C10: over successive completed runs into the same output root and prefix,
\* a run removes no file; a completed run that emitted n segments has replaced
\* exactly the files 0..n-1 and left every file numbered n or more as it was,
\* so that after a run with fewer segments than an earlier one the directory
\* holds files that are not segments of the latest run.
C10_RunsNeverDelete ==
    /\ \A p \in DOMAIN fs0 : p \in DOMAIN fs
    /\ pc = "done" =>
          /\ \A n \in 1..Len(written) :
                /\ written[n].path \in DOMAIN fs
                /\ fs[written[n].path] = written[n].data
          /\ \A p \in DOMAIN fs :
                ParseInt(p.num) >= Len(written) =>
                    (p \in DOMAIN fs0 /\ fs[p] = fs0[p])
          /\ (\E p \in DOMAIN fs0 : ParseInt(p.num) >= Len(written)) =>
                DOMAIN fs # WrittenPaths

C10_Witness ==
    /\ run = 2 /\ pc = "done"
    /\ Len(written) = 1
    /\ Cardinality(DOMAIN fs) >= 3
    /\ written[1].data # <<>>
    /\ \E p \in DOMAIN fs : ParseInt(p.num) >= 1 /\ fs[p] # <<>>

====
